---- MODULE Spec2Model ----
(***************************************************************************)
(* A model of db_proto.py: the tag/entity/rule engine (tag_match,          *)
(* pattern_match, Rule.forward, Rule.backward, check_chain) and the two    *)
(* backward-chaining searches (ai_search_dumb, ai_search_greedy).          *)
(*                                                                         *)
(* Python values are modelled as follows.                                  *)
(*   - a tuple/list is a sequence; Python index i is position i+1          *)
(*   - Entity.tags / Entity.notags are tuples built from sets and only     *)
(*     ever read through set(), iteration or membership: they are sets     *)
(*   - the result of a call is a record [kind, es]: kind "pool" carries    *)
(*     the returned tuple of entities, kind "None" is Python's None and    *)
(*     any other kind is the name of the exception the call raised         *)
(*   - swizzle=None and an empty swizzle are both falsy and are treated    *)
(*     alike by every line that reads them: both are <<>>                  *)
(***************************************************************************)
EXTENDS Integers, Sequences, FiniteSets

VARIABLES
    pool,      \* engine/scenario: the current pool of entities
    call,      \* engine: the last forward/backward call and what it returned
    asg,       \* scenario: the assignment every step of the scenario uses
    hist,      \* scenario: the successful applications so far, oldest first
    cfg,       \* search: [strategy, rules, root, n, depth], the arguments
    pc,        \* search: where the generator is suspended or running
    pending,   \* search: TRUE while a next() call of the consumer is running
    work,      \* greedy: the heap, as the sequence of its entries in push order
    stack,     \* dumb: the active dumb_step frames, innermost last
    cur,       \* greedy: the chain yielded last (entities, chain), not expanded yet
    out,       \* search: the AiChain handed to the consumer last
    emitted,   \* search: every AiChain yielded so far
    succWork   \* search: successor entries generated, regressed or validated so far

vars == <<pool, call, asg, hist, cfg, pc, pending, work, stack, cur, out, emitted, succWork>>

(***************************************************************************)
(* Bounds of the model.                                                    *)
(***************************************************************************)
EngMaxEntities == 2   \* engine: pools of 1..EngMaxEntities entities
MaxInitTags == 3      \* engine: an input pool carries at most this many tags
ScnMaxEntities == 3   \* scenario: anonymous pools of 2..ScnMaxEntities entities
MaxHist == 4          \* scenario: at most this many successful applications
MaxEntities == 3      \* search: num_entities in 1..MaxEntities
MaxDepth == 1         \* search: max_depth in 0..MaxDepth
RpMaxDepth == 2       \* replay: max_depth, chains of up to RpMaxDepth + 1 applications

(***************************************************************************)
(* Small helpers for Python's sequence operations.                         *)
(***************************************************************************)
Nth(s, i) == s[i + 1]

Min(a, b) == IF a < b THEN a ELSE b

MaxOf(S) == CHOOSE x \in S : \A y \in S : y <= x

\* list(range(n))
PyRange(n) == [k \in 1..n |-> k - 1]

(***************************************************************************)
(* The namedtuples Entity, Tag, Pattern, AiRule, AiChain.                  *)
(***************************************************************************)
Entity(id, name, tags, notags) == [id |-> id, name |-> name, tags |-> tags, notags |-> notags]

Tag(tag, binds) == [tag |-> tag, binds |-> binds]

Pattern(sign, entity, tag) == [sign |-> sign, entity |-> entity, tag |-> tag]

AiRule(rule, swizzle) == [rule |-> rule, swizzle |-> swizzle]

AiChain(start, rules) == [start |-> start, rules |-> rules]

\* '!' in s, for the strings of this model
HasBang(s) == s \in {"hurt!", "fall!", "break!", "weapon-hit!", "hit!", "pick-up!", "drop!", "two-hold!"}

\* Rule.__init__
Rule(name, names, pre, post) ==
    [name |-> name, names |-> names, num |-> Len(names), pre |-> pre, post |-> post,
     action |-> HasBang(name)]

(***************************************************************************)
(* Python results.                                                         *)
(***************************************************************************)
None == [kind |-> "None", es |-> <<>>]

Ret(es) == [kind |-> "pool", es |-> es]

Raise(e) == [kind |-> e, es |-> <<>>]

\* bool(x) for a result: None and the empty tuple are falsy
Truthy(r) == r.kind = "pool" /\ r.es # <<>>

(***************************************************************************)
(* The matcher.                                                            *)
(***************************************************************************)
\* zip(t.binds, tag.binds) stops at the shorter of the two
tag_match(entity, tag, entities) ==
    \E t \in entity.tags :
        /\ t.tag = tag.tag
        /\ \A k \in 1..Min(Len(t.binds), Len(tag.binds)) :
               Nth(entities, tag.binds[k]).id = t.binds[k]

pattern_match(pat, entities) ==
    tag_match(Nth(entities, pat.entity), pat.tag, entities) = pat.sign

swizzle_tuple(lst, indices) ==
    IF indices # <<>>
    THEN [k \in 1..Len(indices) |-> Nth(lst, indices[k])]
    ELSE lst

\* faulty variant: the new entities are written to the first positions
UnswizzlePrefix(original, lst, indices) ==
    IF indices # <<>>
    THEN [p \in 1..Len(original) |-> IF p <= Len(lst) THEN lst[p] ELSE original[p]]
    ELSE lst

\* copy[i] = e for e, i in zip(lst, indices), in order: the last write to a
\* position stays
unswizzle_tuple(original, lst, indices) ==
    IF indices # <<>>
    THEN [p \in 1..Len(original) |->
            LET ks == {k \in 1..Min(Len(lst), Len(indices)) : indices[k] = p - 1}
            IN  IF ks = {} THEN original[p] ELSE lst[MaxOf(ks)]]
    ELSE lst

\* tuple(entities[b].id for b in pat.tag.binds)
ResolveBinds(pat, entities) ==
    [k \in 1..Len(pat.tag.binds) |-> Nth(entities, pat.tag.binds[k]).id]

\* The IndexError of lines 70-71 and 101-102, and the one a tuple raises when
\* swizzle_tuple indexes past its end.
ArityError(rule, entity_list, swizzle) ==
    \/ (IF swizzle # <<>> THEN Len(swizzle) < rule.num ELSE Len(entity_list) < rule.num)
    \/ \E k \in 1..Len(swizzle) : swizzle[k] >= Len(entity_list)

(***************************************************************************)
(* Rule.forward.                                                           *)
(***************************************************************************)
\* faulty variant: transient tags stay
StripNothing(entities) == [k \in 1..Len(entities) |-> entities[k].tags]

\* tags = [set(t for t in e.tags if '!' not in t.tag) for e in entities]
StripTransient(entities) ==
    [k \in 1..Len(entities) |-> {t \in entities[k].tags : ~HasBang(t.tag)}]

\* for pat in self.post, from the k-th postcondition on
RECURSIVE ApplyPost(_, _, _, _)
ApplyPost(post, k, tags, entities) ==
    IF k > Len(post) THEN tags
    ELSE LET pat == post[k]
             e == pat.entity + 1
             next == IF pat.sign
                     THEN [tags EXCEPT ![e] = @ \cup {Tag(pat.tag.tag, ResolveBinds(pat, entities))}]
                     ELSE [tags EXCEPT ![e] = {t \in @ : t.tag # pat.tag.tag}]
         IN  ApplyPost(post, k + 1, next, entities)

\* faulty variant: the preconditions are checked after the transient tags are gone
ForwardChecksStripped(rule, entity_list, swizzle) ==
    IF ArityError(rule, entity_list, swizzle) THEN Raise("IndexError")
    ELSE LET entities == swizzle_tuple(entity_list, swizzle)
             tags == StripTransient(entities)
             stripped == [k \in 1..Len(entities) |->
                 Entity(entities[k].id, entities[k].name, tags[k], entities[k].notags)]
         IN  IF ~(\A k \in 1..Len(rule.pre) : pattern_match(rule.pre[k], stripped))
             THEN None
             ELSE LET after == ApplyPost(rule.post, 1, tags, entities)
                      new_entities == [k \in 1..Len(entities) |->
                          Entity(entities[k].id, entities[k].name, after[k], {})]
                  IN  Ret(unswizzle_tuple(entity_list, new_entities, swizzle))

\* faulty variant: the preconditions are not checked
ForwardUnchecked(rule, entity_list, swizzle) ==
    IF ArityError(rule, entity_list, swizzle) THEN Raise("IndexError")
    ELSE LET entities == swizzle_tuple(entity_list, swizzle)
             after == ApplyPost(rule.post, 1, StripTransient(entities), entities)
             new_entities == [k \in 1..Len(entities) |->
                 Entity(entities[k].id, entities[k].name, after[k], {})]
         IN  Ret(unswizzle_tuple(entity_list, new_entities, swizzle))

forward(rule, entity_list, swizzle) ==
    IF ArityError(rule, entity_list, swizzle) THEN Raise("IndexError")
    ELSE LET entities == swizzle_tuple(entity_list, swizzle)
             tags == StripTransient(entities)
         IN  IF ~(\A k \in 1..Len(rule.pre) : pattern_match(rule.pre[k], entities))
             THEN None
             ELSE LET after == ApplyPost(rule.post, 1, tags, entities)
                      new_entities == [k \in 1..Len(entities) |->
                          Entity(entities[k].id, entities[k].name, after[k], {})]
                  IN  Ret(unswizzle_tuple(entity_list, new_entities, swizzle))

(***************************************************************************)
(* Rule.backward.  The two loops only discard from and add to sets, all    *)
(* discards before all adds, so each is one set expression.                *)
(***************************************************************************)
Resolved(pats, sign, slot, entities) ==
    {Tag(pats[k].tag.tag, ResolveBinds(pats[k], entities)) :
        k \in {j \in 1..Len(pats) : pats[j].sign = sign /\ pats[j].entity = slot}}

\* faulty variant: no validation
NoMultiple(ts) == FALSE

\* tagcount.most_common(1)[0][1] > 1
Multiple(ts) == \E t1 \in ts : \E t2 \in ts : t1 # t2 /\ t1.tag = t2.tag

\* faulty variant: the preconditions are not added
BackwardTagsNoPre(rule, entities) ==
    [k \in 1..Len(entities) |->
        entities[k].tags \ Resolved(rule.post, TRUE, k - 1, entities)]

BackwardTags(rule, entities) ==
    [k \in 1..Len(entities) |->
        (entities[k].tags \ Resolved(rule.post, TRUE, k - 1, entities))
            \cup Resolved(rule.pre, TRUE, k - 1, entities)]

\* faulty variant: the negative preconditions are not recorded
BackwardNotagsNoPre(rule, entities) ==
    [k \in 1..Len(entities) |->
        entities[k].notags \ Resolved(rule.post, FALSE, k - 1, entities)]

BackwardNotags(rule, entities) ==
    [k \in 1..Len(entities) |->
        (entities[k].notags \ Resolved(rule.post, FALSE, k - 1, entities))
            \cup Resolved(rule.pre, FALSE, k - 1, entities)]

\* faulty variant: the production is returned without the multiplicity check
BackwardUnvalidated(rule, entity_list, swizzle) ==
    IF ArityError(rule, entity_list, swizzle) THEN Raise("IndexError")
    ELSE LET entities == swizzle_tuple(entity_list, swizzle)
             tags == BackwardTags(rule, entities)
             notags == BackwardNotags(rule, entities)
             new_entities == [k \in 1..Len(entities) |->
                          Entity(entities[k].id, entities[k].name, tags[k], notags[k])]
         IN  Ret(unswizzle_tuple(entity_list, new_entities, swizzle))

backward(rule, entity_list, swizzle) ==
    IF ArityError(rule, entity_list, swizzle) THEN Raise("IndexError")
    ELSE LET entities == swizzle_tuple(entity_list, swizzle)
             tags == BackwardTags(rule, entities)
             notags == BackwardNotags(rule, entities)
         IN  IF \E k \in 1..Len(entities) : Multiple(tags[k])
             THEN None
             ELSE LET new_entities == [k \in 1..Len(entities) |->
                          Entity(entities[k].id, entities[k].name, tags[k], notags[k])]
                  IN  Ret(unswizzle_tuple(entity_list, new_entities, swizzle))

\* rule.backward(x, swizzle=s) where x may be None (dumb_step after a failed
\* root regression): len(None) and None[i] raise TypeError
backward_obj(rule, obj, swizzle) ==
    IF obj.kind = "None" THEN Raise("TypeError") ELSE backward(rule, obj.es, swizzle)

(***************************************************************************)
(* check_chain.  The loop runs over the chain in storage order, head       *)
(* first.  The value is "True", "False" or the exception forward raised.   *)
(***************************************************************************)
\* (r is bound through a one-element set, which holds the value forward
\* returned: entities = rule.forward(entities, swizzle))
RECURSIVE ReplayFrom(_, _, _)
ReplayFrom(es, chain, k) ==
    IF k > Len(chain) THEN "True"
    ELSE CHOOSE v \in {(IF r.kind \notin {"pool", "None"} THEN r.kind
                        ELSE IF ~Truthy(r) THEN "False"
                        ELSE ReplayFrom(r.es, chain, k + 1)) :
                       r \in {forward(chain[k].rule, es, chain[k].swizzle)}} : TRUE

check_chain(obj, chain) ==
    IF ~Truthy(obj) THEN "False" ELSE ReplayFrom(obj.es, chain, 1)

(***************************************************************************)
(* The rules the model runs on: those of db_proto_test.py, the `hit' rule  *)
(* of the two-rule scenario and a rule whose preconditions ask one entity  *)
(* to hold two different things.                                           *)
(***************************************************************************)
T0(name) == Tag(name, <<>>)

T1(name, b) == Tag(name, <<b>>)

PickUp ==
    Rule("pick-up!", <<"dwarf", "thing">>,
         <<Pattern(TRUE, 0, T0("dwarf")), Pattern(FALSE, 0, T0("hold")),
           Pattern(TRUE, 1, T0("holdable"))>>,
         <<Pattern(TRUE, 0, T1("hold", 1))>>)

Drop ==
    Rule("drop!", <<"dwarf", "thing">>,
         <<Pattern(TRUE, 0, T0("dwarf")), Pattern(TRUE, 0, T1("hold", 1)),
           Pattern(TRUE, 1, T0("holdable"))>>,
         <<Pattern(FALSE, 0, T0("hold")), Pattern(TRUE, 1, T0("fall!"))>>)

FallBreak ==
    Rule("fall-break", <<"object">>,
         <<Pattern(TRUE, 0, T0("fall!"))>>,
         <<Pattern(TRUE, 0, T0("break!"))>>)

WeaponHit ==
    Rule("weapon-hit!", <<"dwarf", "weapon", "thing">>,
         <<Pattern(TRUE, 0, T0("dwarf")), Pattern(TRUE, 0, T1("hold", 1)),
           Pattern(TRUE, 1, T0("weapon"))>>,
         <<Pattern(TRUE, 2, T0("hurt!"))>>)

Hit ==
    Rule("hit", <<"dwarf", "weapon">>,
         <<Pattern(TRUE, 0, T0("dwarf")), Pattern(TRUE, 0, T1("hold", 1)),
           Pattern(TRUE, 1, T0("weapon"))>>,
         <<Pattern(TRUE, 1, T0("hurt!"))>>)

TwoHold ==
    Rule("two-hold!", <<"dwarf", "left", "right">>,
         <<Pattern(TRUE, 0, T1("hold", 1)), Pattern(TRUE, 0, T1("hold", 2))>>,
         <<Pattern(TRUE, 0, T0("armed"))>>)

\* 'e_{}'.format(i)
NameOf(i) == Nth(<<"e_0", "e_1", "e_2", "e_3", "e_4", "e_5">>, i)

\* [Entity(i, 'e_{}'.format(i), (), ()) for i in range(num_entities)]
StartEntities(n) == [k \in 1..n |-> Entity(k - 1, NameOf(k - 1), {}, {})]

(***************************************************************************)
(* Values of the variables a specification does not use.                   *)
(***************************************************************************)
NoCall == [op |-> "none", rule |-> FallBreak, swizzle |-> <<>>, arg |-> <<>>, ret |-> None]

NoChain == AiChain(None, <<>>)

NoCfg == [strategy |-> "none", rules |-> <<>>, root |-> FallBreak, n |-> 0, depth |-> 0]

SearchIdle ==
    /\ cfg = NoCfg
    /\ pc = "idle"
    /\ pending = FALSE
    /\ work = <<>>
    /\ stack = <<>>
    /\ cur = NoChain
    /\ out = NoChain
    /\ emitted = {}
    /\ succWork = 0

searchVars == <<cfg, pc, pending, work, stack, cur, out, emitted, succWork>>

(***************************************************************************)
(* The engine specification: one forward or backward call on an input pool *)
(* such as parse_entities builds (ids are positions, notags empty).        *)
(***************************************************************************)
EngRules == {PickUp, Drop, Hit, FallBreak}

TagUniverse(n) ==
    {T0(x) : x \in {"dwarf", "holdable", "weapon", "hold", "fall!", "hurt!"}}
        \cup {T1("hold", i) : i \in 0..(n - 1)}

\* the subsets of S with at most k elements
RECURSIVE UpTo(_, _)
UpTo(S, k) ==
    IF k = 0 THEN {{}}
    ELSE LET prev == UpTo(S, k - 1)
         IN  prev \cup {x \cup {e} : x \in prev, e \in S}

InputPools(n) ==
    {[k \in 1..n |-> Entity(k - 1, NameOf(k - 1), {s[2] : s \in {x \in place : x[1] = k}}, {})] :
        place \in UpTo((1..n) \X TagUniverse(n), MaxInitTags)}

\* every swizzle of the right length over the pool's indices, and no swizzle
Assignments(n, k) == [1..k -> 0..(n - 1)] \cup {<<>>}

EngInit ==
    /\ \E n \in 1..EngMaxEntities : pool \in InputPools(n)
    /\ call = NoCall
    /\ asg = <<>>
    /\ hist = <<>>
    /\ SearchIdle

EngForward ==
    /\ call.op = "none"
    /\ \E r \in EngRules : \E a \in Assignments(Len(pool), r.num) :
           call' = [op |-> "forward", rule |-> r, swizzle |-> a, arg |-> pool,
                    ret |-> forward(r, pool, a)]
    /\ UNCHANGED <<pool, asg, hist, searchVars>>

EngBackward ==
    /\ call.op = "none"
    /\ \E r \in EngRules : \E a \in Assignments(Len(pool), r.num) :
           call' = [op |-> "backward", rule |-> r, swizzle |-> a, arg |-> pool,
                    ret |-> backward(r, pool, a)]
    /\ UNCHANGED <<pool, asg, hist, searchVars>>

EngNext == EngForward \/ EngBackward

SpecEngine == EngInit /\ [][EngNext]_vars

(***************************************************************************)
(* Vocabulary of the engine claims.                                        *)
(***************************************************************************)
Returned(op) == call.op = op /\ call.ret.kind = "pool"

\* the pool positions the call's assignment selects (all of them without one)
Selected(swizzle, n) ==
    IF swizzle = <<>> THEN 1..n ELSE {swizzle[k] + 1 : k \in 1..Len(swizzle)} \cap (1..n)

OneTagPerName(e) == \A t1 \in e.tags : \A t2 \in e.tags : t1.tag = t2.tag => t1 = t2

\* a positive postcondition of the call's rule adds tag t to pool position p
AddedByPost(p, t) ==
    LET entities == swizzle_tuple(call.arg, call.swizzle)
    IN  \E k \in 1..Len(call.rule.post) :
            LET pat == call.rule.post[k]
            IN  /\ pat.sign
                /\ pat.entity + 1 <= Len(entities)
                /\ entities[pat.entity + 1] = call.arg[p]
                /\ Tag(pat.tag.tag, ResolveBinds(pat, entities)) = t

StaleTransient(p) ==
    \E t \in call.ret.es[p].tags :
        HasBang(t.tag) /\ t \in call.arg[p].tags /\ ~AddedByPost(p, t)

(***************************************************************************)
(* C2 as stated: every pool backward returns has, for every entity in it,  *)
(* at most one tag per tag name.  Violated: only the entities the          *)
(* assignment selects are validated, the others are returned as they came. *)
(***************************************************************************)
C2_EveryEntityOneTagPerName ==
    Returned("backward") =>
        \A p \in 1..Len(call.ret.es) : OneTagPerName(call.ret.es[p])

(***************************************************************************)
(* C2 amended: every pool backward returns has at most one tag per tag     *)
(* name on every entity the assignment selects (on every entity when no    *)
(* assignment is given), and on every entity if that held of the input.    *)
(***************************************************************************)
C2_SelectedOneTagPerName ==
    Returned("backward") =>
        /\ \A p \in Selected(call.swizzle, Len(call.arg)) : OneTagPerName(call.ret.es[p])
        /\ (\A p \in 1..Len(call.arg) : OneTagPerName(call.arg[p]))
               => \A p \in 1..Len(call.ret.es) : OneTagPerName(call.ret.es[p])

C2_Witness ==
    /\ Returned("backward")
    /\ call.swizzle # <<>>
    /\ \E p \in Selected(call.swizzle, Len(call.arg)) : Cardinality(call.ret.es[p].tags) >= 2
    /\ \E p \in 1..Len(call.arg) : ~OneTagPerName(call.ret.es[p])

(***************************************************************************)
(* C3 as stated: after a successful forward step no entity of the pool,    *)
(* selected or not, still carries a transient tag it had before, unless a  *)
(* positive postcondition of the step added it.  Violated: entities the    *)
(* assignment does not select keep their transient tags.                   *)
(***************************************************************************)
C3_NoStaleTransientInPool ==
    Returned("forward") => \A p \in 1..Len(call.ret.es) : ~StaleTransient(p)

(***************************************************************************)
(* C3 amended: after a successful forward step no entity the assignment    *)
(* selects (no entity at all when no assignment is given) still carries a  *)
(* transient tag it had before, unless a positive postcondition of the     *)
(* step added it.                                                          *)
(***************************************************************************)
C3_NoStaleTransientOnSelected ==
    Returned("forward") =>
        \A p \in Selected(call.swizzle, Len(call.arg)) : ~StaleTransient(p)

C3_Witness ==
    /\ Returned("forward")
    /\ call.swizzle # <<>>
    /\ \E p \in Selected(call.swizzle, Len(call.arg)) :
           \E t \in call.arg[p].tags : HasBang(t.tag) /\ t \notin call.ret.es[p].tags

(***************************************************************************)
(* C4 as stated: whenever forward(P, a) succeeds with Q, backward(Q, a)    *)
(* returns a pool R, check_chain(R, [(rule, a)]) is true and forward(R, a) *)
(* has the tag sets of Q on the selected entities.  Violated: backward     *)
(* answers None when a selected entity of Q has two tags of one name.      *)
(***************************************************************************)
RoundTripOf(R) ==
    LET replay == forward(call.rule, R.es, call.swizzle)
    IN  /\ check_chain(R, <<AiRule(call.rule, call.swizzle)>>) = "True"
        /\ replay.kind = "pool"
        /\ \A p \in Selected(call.swizzle, Len(call.arg)) :
               replay.es[p].tags = call.ret.es[p].tags

C4_RoundTrip ==
    Returned("forward") =>
        LET R == backward(call.rule, call.ret.es, call.swizzle)
        IN  R.kind = "pool" /\ RoundTripOf(R)

(***************************************************************************)
(* C4 amended: whenever forward(P, a) succeeds with Q, backward(Q, a)      *)
(* either answers None (a selected entity of Q would have two tags of one  *)
(* name) or returns a pool R such that check_chain(R, [(rule, a)]) is true *)
(* and forward(R, a) has the tag sets of Q on the selected entities.       *)
(***************************************************************************)
C4_RoundTripUnlessImpossible ==
    Returned("forward") =>
        LET R == backward(call.rule, call.ret.es, call.swizzle)
        IN  \/ R.kind = "None"
            \/ R.kind = "pool" /\ RoundTripOf(R)

C4_Witness ==
    /\ Returned("forward")
    /\ call.ret.es # call.arg
    /\ backward(call.rule, call.ret.es, call.swizzle).kind = "pool"
    /\ \E p \in 1..Len(call.arg) : call.arg[p].tags # {}

(***************************************************************************)
(* The scenario specification: starting from anonymous entities, forward   *)
(* and backward applications of pick-up and hit, all with one assignment,  *)
(* each applied to the pool the previous one returned.                     *)
(***************************************************************************)
ScnRules == {PickUp, Hit}

Step(op, rule) == [op |-> op, rule |-> rule.name]

ScnInit ==
    /\ \E n \in 2..ScnMaxEntities :
           /\ pool = StartEntities(n)
           /\ asg \in [1..2 -> 0..(n - 1)]
    /\ hist = <<>>
    /\ call = NoCall
    /\ SearchIdle

ScnBackward ==
    /\ Len(hist) < MaxHist
    /\ \E r \in ScnRules :
           LET ret == backward(r, pool, asg)
           IN  /\ ret.kind = "pool"
               /\ pool' = ret.es
               /\ hist' = Append(hist, Step("backward", r))
    /\ UNCHANGED <<call, asg, searchVars>>

ScnForward ==
    /\ Len(hist) < MaxHist
    /\ \E r \in ScnRules :
           LET ret == forward(r, pool, asg)
           IN  /\ ret.kind = "pool"
               /\ pool' = ret.es
               /\ hist' = Append(hist, Step("forward", r))
    /\ UNCHANGED <<call, asg, searchVars>>

ScnNext == ScnBackward \/ ScnForward

SpecScenario == ScnInit /\ [][ScnNext]_vars

Regressed == <<Step("backward", Hit), Step("backward", PickUp)>>

Replayed == Regressed \o <<Step("forward", PickUp), Step("forward", Hit)>>

HasTagNamed(e, name) == \E t \in e.tags : t.tag = name

(***************************************************************************)
(* C5: over 3 anonymous entities, with dwarf = entity 0 and weapon/thing = *)
(* entity 2, regressing hit and then pick-up yields a pool where entity 0  *)
(* has exactly the tag dwarf (no hold tag) and entity 2 has exactly        *)
(* holdable and weapon; forward-replaying pick-up and then hit on it       *)
(* succeeds at both steps and leaves entity 2 tagged hurt!.                *)
(***************************************************************************)
C5_TwoRuleScenario ==
    (Len(pool) = 3 /\ asg = <<0, 2>>) =>
        /\ hist = Regressed =>
               /\ pool[1].tags = {T0("dwarf")}
               /\ ~HasTagNamed(pool[1], "hold")
               /\ pool[3].tags = {T0("holdable"), T0("weapon")}
               /\ LET first == forward(PickUp, pool, asg)
                  IN  /\ first.kind = "pool"
                      /\ LET second == forward(Hit, first.es, asg)
                         IN  second.kind = "pool" /\ T0("hurt!") \in second.es[3].tags
        /\ hist = Replayed => T0("hurt!") \in pool[3].tags

C5_Witness == Len(pool) = 3 /\ asg = <<0, 2>> /\ hist = Replayed

(***************************************************************************)
(* The searches.  Both are Python generators: the body runs only inside a  *)
(* next() call of the consumer (pending), from where it was suspended to   *)
(* the next yield, to its end (pc = "done") or to an exception (pc is the  *)
(* exception's name).                                                      *)
(***************************************************************************)
RECURSIVE Flatten(_)
Flatten(ss) == IF ss = <<>> THEN <<>> ELSE Head(ss) \o Flatten(Tail(ss))

RemoveAt(s, i) == [k \in 1..(Len(s) - 1) |-> IF k < i THEN s[k] ELSE s[k + 1]]

\* itertools.permutations(range(n), k): the k-tuples of distinct indices in
\* lexicographic order
RECURSIVE permutations(_, _)
permutations(n, k) ==
    IF k = 0 THEN << <<>> >>
    ELSE LET shorter == permutations(n, k - 1)
             Extend(p) ==
                 LET free == SelectSeq(PyRange(n), LAMBDA i : \A j \in 1..Len(p) : p[j] # i)
                 IN  [j \in 1..Len(free) |-> Append(p, free[j])]
         IN  Flatten([j \in 1..Len(shorter) |-> Extend(shorter[j])])

\* faulty variant: the actor may be any entity
QualifiesAlways(rule, permutation) == TRUE

\* not (rule.action and permutation[0] != 0)
Qualifies(rule, permutation) == ~(rule.action /\ Nth(permutation, 0) # 0)

\* The (rule, permutation) pairs the two nested for loops of either strategy
\* reach, in the order they reach them: rules with more participants than
\* there are entities are skipped, and so is an action rule unless the
\* permutation starts with entity 0.
Candidates(rules, n) ==
    Flatten([r \in 1..Len(rules) |->
        IF n < rules[r].num THEN <<>>
        ELSE LET perms == SelectSeq(permutations(n, rules[r].num),
                                    LAMBDA q : Qualifies(rules[r], q))
             IN  [j \in 1..Len(perms) |-> AiRule(rules[r], perms[j])]])

\* faulty variant: the new application goes to the end of the list
AppendLast(ai_rule, chain) == chain \o <<ai_rule>>

\* [ai_rule] + chain
Prepend(ai_rule, chain) == <<ai_rule>> \o chain

Node(score, entities, chain) == [score |-> score, entities |-> entities, chain |-> chain]

Frame(entities, chain, depth, idx) ==
    [entities |-> entities, chain |-> chain, depth |-> depth, idx |-> idx]

Errors == {"IndexError", "TypeError"}

Roots == {Hit, WeaponHit, TwoHold}

Libraries == {<<PickUp>>, <<PickUp, Drop>>, <<FallBreak>>}

SearchInit ==
    /\ cfg \in [strategy : {"dumb", "greedy"}, rules : Libraries, root : Roots,
                n : 1..MaxEntities, depth : 0..MaxDepth]
    /\ pc = "start"
    /\ pending = FALSE
    /\ work = <<>>
    /\ stack = <<>>
    /\ cur = NoChain
    /\ out = NoChain
    /\ emitted = {}
    /\ succWork = 0
    /\ pool = <<>>
    /\ call = NoCall
    /\ asg = <<>>
    /\ hist = <<>>

engineVars == <<pool, call, asg, hist>>

\* the consumer calls next() on the suspended generator
Pull ==
    /\ ~pending
    /\ pc \in {"start", "yielded"}
    /\ pending' = TRUE
    /\ UNCHANGED <<cfg, pc, work, stack, cur, out, emitted, succWork, engineVars>>

\* yield AiChain(entities, chain): the generator is suspended
Yield(entities, chain) ==
    /\ out' = AiChain(entities, chain)
    /\ emitted' = emitted \cup {AiChain(entities, chain)}
    /\ pending' = FALSE

\* an exception leaves the generator and reaches the consumer
Throw(e) ==
    /\ pc' = e
    /\ pending' = FALSE
    /\ work' = <<>>
    /\ stack' = <<>>
    /\ UNCHANGED <<cur, out, emitted>>

(***************************************************************************)
(* ai_search_greedy.                                                       *)
(***************************************************************************)
GreedyBegin ==
    /\ cfg.strategy = "greedy" /\ pending /\ pc = "start"
    /\ work' = <<Node(0, StartEntities(cfg.n),
                      <<AiRule(cfg.root, PyRange(cfg.root.num))>>)>>
    /\ pc' = "loop"
    /\ UNCHANGED <<cfg, pending, stack, cur, out, emitted, succWork, engineVars>>

\* tuple comparison: a < b for two permutations of one length
TupleLess(a, b) ==
    \E k \in 1..Min(Len(a), Len(b)) :
        a[k] < b[k] /\ \A j \in 1..(k - 1) : a[j] = b[j]

\* heapq.heappop(work): an entry that is least in the order of the Node
\* tuples (score, entities, chain).  The least score comes first.  Among
\* entries of one score with equal entities and the same rule at the head of
\* the chain, the smaller permutation comes first.  Every other tie is
\* decided by the order of tuples made from sets or by the identity of Rule
\* objects, which the program text does not determine: any such entry may
\* come first.
Poppable(i) ==
    \A j \in 1..Len(work) :
        /\ work[i].score <= work[j].score
        /\ ~(/\ work[j].score = work[i].score
             /\ work[j].entities = work[i].entities
             /\ work[j].chain[1].rule = work[i].chain[1].rule
             /\ TupleLess(work[j].chain[1].swizzle, work[i].chain[1].swizzle))

\* faulty variant: the depth test is off by one
SuccessorsOneDeeper(entities, chain) ==
    IF Len(chain) <= cfg.depth + 1
    THEN LET cands == Candidates(cfg.rules, cfg.n)
         IN  [j \in 1..Len(cands) |-> Node(1, entities, Prepend(cands[j], chain))]
    ELSE <<>>

\* the successors of the chain just yielded, pushed when the generator resumes
Successors(entities, chain) ==
    IF Len(chain) <= cfg.depth
    THEN LET cands == Candidates(cfg.rules, cfg.n)
         IN  [j \in 1..Len(cands) |-> Node(1, entities, Prepend(cands[j], chain))]
    ELSE <<>>

\* faulty variant: the successors are pushed before the chain is yielded
GreedyPopEager ==
    /\ cfg.strategy = "greedy" /\ pending /\ pc = "loop" /\ work # <<>>
    /\ \E i \in 1..Len(work) :
        /\ Poppable(i)
        /\ \E node \in {work[i]} :
           \E entities \in {backward(node.chain[1].rule, node.entities, node.chain[1].swizzle)} :
           \E ok \in {check_chain(entities, node.chain)} :
           \E pushed \in {IF ok = "True" THEN Successors(entities.es, node.chain) ELSE <<>>} :
               IF entities.kind \in Errors THEN Throw(entities.kind) /\ UNCHANGED succWork
               ELSE IF ok # "True"
               THEN /\ work' = RemoveAt(work, i)
                    /\ UNCHANGED <<pc, pending, stack, cur, out, emitted, succWork>>
               ELSE /\ work' = RemoveAt(work, i) \o pushed
                    /\ succWork' = succWork + Len(pushed)
                    /\ Yield(entities, node.chain)
                    /\ cur' = AiChain(entities, node.chain)
                    /\ pc' = "yielded"
                    /\ UNCHANGED stack
    /\ UNCHANGED <<cfg, engineVars>>

\* faulty variant: an entry that fails validation stays in the heap
GreedyPopKeep ==
    /\ cfg.strategy = "greedy" /\ pending /\ pc = "loop" /\ work # <<>>
    /\ \E i \in 1..Len(work) :
        /\ Poppable(i)
        /\ \E node \in {work[i]} :
           \E entities \in {backward(node.chain[1].rule, node.entities, node.chain[1].swizzle)} :
           \E ok \in {check_chain(entities, node.chain)} :
               IF entities.kind \in Errors THEN Throw(entities.kind) /\ UNCHANGED succWork
               ELSE IF ok # "True"
               THEN UNCHANGED <<work, pc, pending, stack, cur, out, emitted, succWork>>
               ELSE /\ work' = RemoveAt(work, i)
                    /\ succWork' = succWork + (IF Len(node.chain) > 1 THEN 1 ELSE 0)
                    /\ Yield(entities, node.chain)
                    /\ cur' = AiChain(entities, node.chain)
                    /\ pc' = "yielded"
                    /\ UNCHANGED stack
    /\ UNCHANGED <<cfg, engineVars>>

GreedyPop ==
    /\ cfg.strategy = "greedy" /\ pending /\ pc = "loop" /\ work # <<>>
    /\ \E i \in 1..Len(work) :
        /\ Poppable(i)
        /\ \E node \in {work[i]} :
           \E entities \in {backward(node.chain[1].rule, node.entities, node.chain[1].swizzle)} :
           \E ok \in {check_chain(entities, node.chain)} :
               /\ succWork' = succWork + (IF Len(node.chain) > 1 THEN 1 ELSE 0)
               /\ IF entities.kind \in Errors THEN Throw(entities.kind)
                  ELSE IF ok \in Errors THEN Throw(ok)
                  ELSE IF ok = "False"
                  THEN /\ work' = RemoveAt(work, i)
                       /\ UNCHANGED <<pc, pending, stack, cur, out, emitted>>
                  ELSE /\ work' = RemoveAt(work, i)
                       /\ Yield(entities, node.chain)
                       /\ cur' = AiChain(entities, node.chain)
                       /\ pc' = "yielded"
                       /\ UNCHANGED stack
    /\ UNCHANGED <<cfg, engineVars>>

GreedyExpand ==
    /\ cfg.strategy = "greedy" /\ pending /\ pc = "yielded"
    /\ \E pushed \in {Successors(cur.start.es, cur.rules)} :
           /\ work' = work \o pushed
           /\ succWork' = succWork + Len(pushed)
    /\ pc' = "loop"
    /\ UNCHANGED <<cfg, pending, stack, cur, out, emitted, engineVars>>

\* while work: the heap is empty, the generator ends
GreedyDone ==
    /\ cfg.strategy = "greedy" /\ pending /\ pc = "loop" /\ work = <<>>
    /\ pc' = "done"
    /\ pending' = FALSE
    /\ UNCHANGED <<cfg, work, stack, cur, out, emitted, succWork, engineVars>>

(***************************************************************************)
(* ai_search_dumb.  stack holds the dumb_step generators that are active,  *)
(* each with its arguments and the index of the candidate its loops will   *)
(* try next.                                                               *)
(***************************************************************************)
DumbBegin ==
    /\ cfg.strategy = "dumb" /\ pending /\ pc = "start"
    /\ LET start_entities == backward(cfg.root, StartEntities(cfg.n), <<>>)
       IN  IF start_entities.kind \in Errors
           THEN Throw(start_entities.kind)
           ELSE /\ stack' = <<Frame(start_entities,
                                    <<AiRule(cfg.root, SubSeq(PyRange(cfg.n), 1, cfg.root.num))>>,
                                    0, 1)>>
                /\ pc' = "enter"
                /\ UNCHANGED <<pending, work, cur, out, emitted>>
    /\ UNCHANGED <<cfg, succWork, engineVars>>

\* the yield at the top of dumb_step; the callers pass it on
DumbYield ==
    /\ cfg.strategy = "dumb" /\ pending /\ pc = "enter"
    /\ LET f == stack[Len(stack)]
       IN  Yield(f.entities, f.chain)
    /\ pc' = "yielded"
    /\ UNCHANGED <<cfg, work, stack, cur, succWork, engineVars>>

\* depth >= max_depth, or the loops are through: dumb_step returns
DumbReturn ==
    /\ cfg.strategy = "dumb" /\ pending /\ pc \in {"yielded", "iter"}
    /\ LET f == stack[Len(stack)]
       IN  f.depth >= cfg.depth \/ f.idx > Len(Candidates(cfg.rules, cfg.n))
    /\ stack' = SubSeq(stack, 1, Len(stack) - 1)
    /\ IF Len(stack) = 1
       THEN pc' = "done" /\ pending' = FALSE
       ELSE pc' = "iter" /\ UNCHANGED pending
    /\ UNCHANGED <<cfg, work, cur, out, emitted, succWork, engineVars>>

\* one pass of the inner loop: regress, validate, and descend if valid
DumbTry ==
    /\ cfg.strategy = "dumb" /\ pending /\ pc \in {"yielded", "iter"}
    /\ \E f \in {stack[Len(stack)]} :
       \E cands \in {Candidates(cfg.rules, cfg.n)} :
           /\ f.depth < cfg.depth
           /\ f.idx <= Len(cands)
           /\ \E c \in {cands[f.idx]} :
              \E enext \in {backward_obj(c.rule, f.entities, c.swizzle)} :
              \E cnext \in {Prepend(c, f.chain)} :
              \E ok \in {check_chain(enext, cnext)} :
              \E advanced \in {[stack EXCEPT ![Len(stack)].idx = f.idx + 1]} :
                  IF enext.kind \in Errors THEN Throw(enext.kind)
                  ELSE IF Truthy(enext) /\ ok \in Errors THEN Throw(ok)
                  ELSE IF Truthy(enext) /\ ok = "True"
                  THEN /\ stack' = Append(advanced, Frame(enext, cnext, f.depth + 1, 1))
                       /\ pc' = "enter"
                       /\ UNCHANGED <<pending, work, cur, out, emitted>>
                  ELSE /\ stack' = advanced
                       /\ pc' = "iter"
                       /\ UNCHANGED <<pending, work, cur, out, emitted>>
    /\ succWork' = succWork + 1
    /\ UNCHANGED <<cfg, engineVars>>

SearchNext ==
    \/ Pull
    \/ GreedyBegin
    \/ GreedyPop
    \/ GreedyExpand
    \/ GreedyDone
    \/ DumbBegin
    \/ DumbYield
    \/ DumbReturn
    \/ DumbTry

Spec == SearchInit /\ [][SearchNext]_vars

\* a consumer that keeps pulling: every next() call is made and runs on
SpecLive == SearchInit /\ [][SearchNext]_vars /\ WF_vars(SearchNext)

(***************************************************************************)
(* Vocabulary of the search claims.                                        *)
(***************************************************************************)
Passes(c) == check_chain(c.start, c.rules) = "True"

RootApplication == AiRule(cfg.root, PyRange(cfg.root.num))

EmittedLists == {c.rules : c \in emitted}

FrontierLists == {work[i].chain : i \in 1..Len(work)}

Finished == pc \in {"done"} \cup Errors

(***************************************************************************)
(* C1: every chain either strategy emits, the first one with only the root *)
(* rule included, passes check_chain(chain.start, chain.rules).  Violated  *)
(* by ai_search_dumb, which yields the root chain without validating it.   *)
(***************************************************************************)
C1_EmittedChainsPass == \A c \in emitted : Passes(c)

(***************************************************************************)
(* C6: no search ends in a hard error because a regression was impossible  *)
(* or a replay failed.  Violated by ai_search_dumb: the None of an         *)
(* impossible root regression is handed to the next backward call, which   *)
(* raises TypeError.  (An IndexError is the arity error, not a dead end.)  *)
(***************************************************************************)
C6_NoHardErrorOnDeadEnd == pc # "TypeError"

(***************************************************************************)
(* C7: until the consumer pulls a second time no (rule, permutation)       *)
(* successor has been generated, regressed or validated, and the search    *)
(* takes no step unless a pull is pending.                                 *)
(***************************************************************************)
FirstPull == emitted = {} \/ (Cardinality(emitted) = 1 /\ ~pending /\ pc = "yielded")

C7_Lazy ==
    /\ [](FirstPull => succWork = 0)
    /\ [][~pending => UNCHANGED <<cfg, pc, work, stack, cur, out, emitted, succWork>>]_vars

C7_Witness ==
    /\ cfg.strategy = "greedy"
    /\ Cardinality(emitted) = 1 /\ ~pending /\ pc = "yielded"
    /\ cfg.depth >= 1
    /\ Len(Candidates(cfg.rules, cfg.n)) >= 2
    /\ succWork = 0

(***************************************************************************)
(* C8: a consumer that keeps pulling reaches the end of the search: the    *)
(* generator finishes (it ends, or raises), and when it ends the greedy    *)
(* frontier is empty and every dumb_step has returned.                     *)
(***************************************************************************)
C8_Terminates ==
    /\ <>Finished
    /\ [](pc = "done" => work = <<>> /\ stack = <<>>)

C8_Witness == pc = "done" /\ Cardinality(emitted) >= 2

(***************************************************************************)
(* C9: in every emitted chain every application of an action rule has     *)
(* pool index 0 at participant slot 0, the root rule's included.           *)
(***************************************************************************)
C9_ActorFirst ==
    \A c \in emitted : \A k \in 1..Len(c.rules) :
        c.rules[k].rule.action =>
            Len(c.rules[k].swizzle) >= 1 /\ Nth(c.rules[k].swizzle, 0) = 0

C9_Witness ==
    \E c \in emitted :
        /\ Len(c.rules) >= 2
        /\ \A k \in 1..Len(c.rules) : c.rules[k].rule.action

(***************************************************************************)
(* C10: every emitted list of applications and every list in the greedy    *)
(* frontier is non-empty, ends with the root rule applied with the         *)
(* identity assignment, and if longer is an application put in front of a  *)
(* list that was emitted before.                                           *)
(***************************************************************************)
C10_RootLastPrepended ==
    \A l \in EmittedLists \cup FrontierLists :
        /\ Len(l) >= 1
        /\ l[Len(l)] = RootApplication
        /\ Len(l) > 1 => Tail(l) \in EmittedLists

C10_Witness ==
    /\ \E l \in EmittedLists : Len(l) >= 2
    /\ \E l \in FrontierLists : Len(l) >= 2

(***************************************************************************)
(* The replay specification: one path of a search, with check_chain run    *)
(* statement by statement.  A candidate chain is regressed (its head is    *)
(* applied backward to its parent's start pool), check_chain replays it,   *)
(* and a chain that passed is extended by one more application in front.   *)
(*   cur   the candidate: AiChain(start, rules)                            *)
(*   asg   the applications regressed so far, in the order of regression   *)
(*   pool  check_chain's local es                                          *)
(*   hist  the forward calls check_chain has made, in the order made       *)
(*   call  check_chain's return value, once it returned                    *)
(***************************************************************************)
Running == [op |-> "check_chain", ret |-> "none"]

Returning(v) == [op |-> "check_chain", ret |-> v]

RpConfigs ==
    {c \in [strategy : {"path"}, rules : Libraries, root : Roots,
            n : 2..MaxEntities, depth : {RpMaxDepth}] : c.root.num <= c.n}

RpInit ==
    /\ cfg \in RpConfigs
    /\ cur = AiChain(Ret(StartEntities(cfg.n)), <<AiRule(cfg.root, PyRange(cfg.root.num))>>)
    /\ pc = "regress"
    /\ asg = <<>>
    /\ hist = <<>>
    /\ pool = <<>>
    /\ call = Running
    /\ pending = FALSE /\ work = <<>> /\ stack = <<>> /\ out = NoChain
    /\ emitted = {} /\ succWork = 0

rpFrame == <<cfg, pending, work, stack, out, emitted, succWork>>

\* entities = rule.rule.backward(node.entities, swizzle=rule.swizzle)
RpRegress ==
    /\ pc = "regress"
    /\ LET rule == cur.rules[1]
       IN  /\ cur' = AiChain(backward_obj(rule.rule, cur.start, rule.swizzle), cur.rules)
           /\ asg' = Append(asg, rule)
    /\ pc' = "enter"
    /\ hist' = <<>>
    /\ call' = Running
    /\ UNCHANGED <<pool, rpFrame>>

\* if not entities: return False; es = entities
RpEnter ==
    /\ pc = "enter"
    /\ IF Truthy(cur.start)
       THEN pool' = cur.start.es /\ pc' = "loop" /\ UNCHANGED call
       ELSE call' = Returning("False") /\ pc' = "returned" /\ UNCHANGED pool
    /\ UNCHANGED <<cur, asg, hist, rpFrame>>

\* faulty variant: the loop runs from the last stored application to the first
RpStepReversed ==
    /\ pc = "loop"
    /\ Len(hist) < Len(cur.rules)
    /\ LET app == cur.rules[Len(cur.rules) - Len(hist)]
           es == forward(app.rule, pool, app.swizzle)
       IN  /\ hist' = Append(hist, [app |-> app, in |-> pool, out |-> es])
           /\ IF es.kind \in Errors
              THEN call' = Returning(es.kind) /\ pc' = "returned" /\ UNCHANGED pool
              ELSE IF ~Truthy(es)
              THEN call' = Returning("False") /\ pc' = "returned" /\ UNCHANGED pool
              ELSE pool' = es.es /\ UNCHANGED <<call, pc>>
    /\ UNCHANGED <<cur, asg, rpFrame>>

\* one pass of the loop: es = r.forward(es, swizzle=s); if not es: return False
RpStep ==
    /\ pc = "loop"
    /\ Len(hist) < Len(cur.rules)
    /\ LET app == cur.rules[Len(hist) + 1]
           es == forward(app.rule, pool, app.swizzle)
       IN  /\ hist' = Append(hist, [app |-> app, in |-> pool, out |-> es])
           /\ IF es.kind \in Errors
              THEN call' = Returning(es.kind) /\ pc' = "returned" /\ UNCHANGED pool
              ELSE IF ~Truthy(es)
              THEN call' = Returning("False") /\ pc' = "returned" /\ UNCHANGED pool
              ELSE pool' = es.es /\ UNCHANGED <<call, pc>>
    /\ UNCHANGED <<cur, asg, rpFrame>>

\* the loop is through: return True
RpReturn ==
    /\ pc = "loop"
    /\ Len(hist) = Len(cur.rules)
    /\ call' = Returning("True")
    /\ pc' = "returned"
    /\ UNCHANGED <<cur, asg, hist, pool, rpFrame>>

\* a chain that passed gets one more application in front, if the depth allows
RpExtend ==
    /\ pc = "returned"
    /\ call.ret = "True"
    /\ Len(cur.rules) <= cfg.depth
    /\ \E j \in 1..Len(Candidates(cfg.rules, cfg.n)) :
           cur' = AiChain(cur.start, Prepend(Candidates(cfg.rules, cfg.n)[j], cur.rules))
    /\ pc' = "regress"
    /\ UNCHANGED <<asg, hist, pool, call, rpFrame>>

RpNext == RpRegress \/ RpEnter \/ RpStep \/ RpReturn \/ RpExtend

SpecReplay == RpInit /\ [][RpNext]_vars

(***************************************************************************)
(* Vocabulary of the replay claims.                                        *)
(***************************************************************************)
InCheck == pc \in {"loop", "returned"}

Accepted == pc = "returned" /\ call.ret = "True"

\* every forward call is made on the pool the previous one returned, the
\* first on the start pool
Threaded ==
    \A j \in 1..Len(hist) :
        /\ hist[j].in = (IF j = 1 THEN cur.start.es ELSE hist[j - 1].out.es)
        /\ hist[j].out = forward(hist[j].app.rule, hist[j].in, hist[j].app.swizzle)

FalseIffEmptyOrInapplicable ==
    (pc = "returned" /\ call.ret \in {"True", "False"}) =>
        /\ call.ret = "False" <=>
               (~Truthy(cur.start) \/ \E j \in 1..Len(hist) : ~Truthy(hist[j].out))
        /\ call.ret = "True" => Len(hist) = Len(cur.rules)

(***************************************************************************)
(* C11 as stated: check_chain forward-applies the applications in the      *)
(* reverse of their storage order, the last stored one first, each on the  *)
(* pool the previous returned, and returns False iff the start pool is     *)
(* empty or some forward step is inapplicable.  Violated: the loop runs in *)
(* storage order.                                                          *)
(***************************************************************************)
C11_ReplaysLastStoredFirst ==
    InCheck =>
        /\ \A j \in 1..Len(hist) : hist[j].app = cur.rules[Len(cur.rules) - j + 1]
        /\ Threaded
        /\ FalseIffEmptyOrInapplicable

(***************************************************************************)
(* C11 amended: check_chain forward-applies the applications in their      *)
(* storage order, the head of the list first, each on the pool the         *)
(* previous returned, and returns False iff the start pool is empty (or    *)
(* None) or some forward step is inapplicable; its value is the one the    *)
(* searches act on.                                                        *)
(***************************************************************************)
C11_ReplaysInStorageOrder ==
    InCheck =>
        /\ \A j \in 1..Len(hist) : hist[j].app = cur.rules[j]
        /\ Threaded
        /\ FalseIffEmptyOrInapplicable
        /\ pc = "returned" => call.ret = check_chain(cur.start, cur.rules)

C11_Witness ==
    /\ Accepted
    /\ Len(cur.rules) >= 2
    /\ cur.rules[1] # cur.rules[Len(cur.rules)]

(***************************************************************************)
(* C12: the replay is chronological with respect to the regression: the    *)
(* application regressed last is forward-applied first and the root rule,  *)
(* regressed first, is forward-applied last, so in an accepted chain every *)
(* precondition of the root rule holds in the pool the applications before *)
(* it produced.                                                            *)
(***************************************************************************)
C12_ChronologicalReplay ==
    Accepted =>
        LET n == Len(cur.rules)
            root == hist[n].app
        IN  /\ Len(asg) = n /\ Len(hist) = n
            /\ \A j \in 1..n : hist[j].app = asg[n - j + 1]
            /\ root = AiRule(cfg.root, PyRange(cfg.root.num))
            /\ root = asg[1]
            /\ \A k \in 1..Len(root.rule.pre) :
                   pattern_match(root.rule.pre[k], swizzle_tuple(hist[n].in, root.swizzle))

C12_Witness ==
    /\ Accepted
    /\ Len(cur.rules) >= 3
    /\ hist[Len(hist)].in # cur.start.es

(***************************************************************************)
(* C13: the greedy strategy pops an entry of the lowest score, and among   *)
(* the entries of that score the one pushed first.  Violated: heappop      *)
(* compares the Node tuples, so among entries of one score the entities    *)
(* and then the chains decide, not the order of the pushes.                *)
(***************************************************************************)
LowestScore(i) == \A j \in 1..Len(work) : work[i].score <= work[j].score

FirstPushed == CHOOSE i \in 1..Len(work) :
                   LowestScore(i) /\ \A j \in 1..(i - 1) : ~LowestScore(j)

C13_PopsLowestScoreFifo ==
    [][(cfg.strategy = "greedy" /\ pc = "loop" /\ work # <<>> /\ pc' \notin Errors)
          => work' = RemoveAt(work, FirstPushed)]_vars

(***************************************************************************)
(* C14: no emitted chain, frontier entry or dumb_step frame has more than  *)
(* max_depth applications besides the root rule; dumb_step's depth is the  *)
(* chain length minus one, so both strategies stop extending at the same   *)
(* length; and with max_depth = 0 nothing but the root-only chain is       *)
(* emitted.                                                                *)
(***************************************************************************)
C14_DepthBound ==
    /\ \A l \in EmittedLists \cup FrontierLists : Len(l) <= cfg.depth + 1
    /\ \A k \in 1..Len(stack) :
           /\ Len(stack[k].chain) = stack[k].depth + 1
           /\ stack[k].depth <= cfg.depth
    /\ cfg.depth = 0 =>
           /\ EmittedLists \subseteq {<<RootApplication>>}
           /\ Cardinality(emitted) <= 1

C14_Witness ==
    /\ pc = "done"
    /\ cfg.depth >= 1
    /\ \E l \in EmittedLists : Len(l) = cfg.depth + 1

(***************************************************************************)
(* C15: whenever forward or backward returns a pool it is as long as the   *)
(* input pool, every position that is not one of the rule's participants   *)
(* holds the input entity, and every participant position keeps its id and *)
(* name; without an assignment the participants are the first              *)
(* rule.num positions.  Violated: without an assignment forward strips the *)
(* transient tags (and resets the notags) of every entity of the pool.     *)
(***************************************************************************)
Participants ==
    IF call.swizzle = <<>>
    THEN 1..call.rule.num
    ELSE {call.swizzle[k] + 1 : k \in 1..Len(call.swizzle)}

C15_Frame ==
    (Returned("forward") \/ Returned("backward")) =>
        /\ Len(call.ret.es) = Len(call.arg)
        /\ \A p \in 1..Len(call.arg) :
               IF p \in Participants
               THEN /\ call.ret.es[p].id = call.arg[p].id
                    /\ call.ret.es[p].name = call.arg[p].name
               ELSE call.ret.es[p] = call.arg[p]

(***************************************************************************)
(* C16: a forward call that does not raise returns None iff some           *)
(* precondition fails pattern_match on the resolved participants as they   *)
(* are before the transient tags are stripped; so a transient tag of a     *)
(* participant can satisfy a precondition of the step that removes it.     *)
(***************************************************************************)
PreFails(k) ==
    ~pattern_match(call.rule.pre[k], swizzle_tuple(call.arg, call.swizzle))

C16_NoneIffPreconditionFails ==
    (call.op = "forward" /\ call.ret.kind \in {"pool", "None"}) =>
        (call.ret.kind = "None" <=> \E k \in 1..Len(call.rule.pre) : PreFails(k))

C16_Witness ==
    /\ Returned("forward")
    /\ \E k \in 1..Len(call.rule.pre) :
           LET pat == call.rule.pre[k]
               p == IF call.swizzle = <<>> THEN pat.entity + 1
                    ELSE call.swizzle[pat.entity + 1] + 1
           IN  /\ pat.sign /\ HasBang(pat.tag.tag)
               /\ \E t \in call.arg[p].tags : t.tag = pat.tag.tag
               /\ \A t \in call.ret.es[p].tags : t.tag # pat.tag.tag

(***************************************************************************)
(* Vocabulary of C17: the participants of the backward call as they are in *)
(* the pool it returned.                                                   *)
(***************************************************************************)
RegressedParticipants == swizzle_tuple(call.ret.es, call.swizzle)

ResolvedTag(pat) == Tag(pat.tag.tag, ResolveBinds(pat, RegressedParticipants))

DistinctIndices == \A i, j \in 1..Len(call.swizzle) : call.swizzle[i] = call.swizzle[j] => i = j

PostGone(pat) == pat.sign => ResolvedTag(pat) \notin RegressedParticipants[pat.entity + 1].tags

BothInit == SearchInit /\ cfg.strategy = "dumb"

\* the consumer is through with the first generator and calls the second
RunGreedyNext ==
    /\ cfg.strategy = "dumb"
    /\ Finished
    /\ hist' = <<[end |-> pc, chains |-> emitted]>>
    /\ cfg' = [cfg EXCEPT !.strategy = "greedy"]
    /\ pc' = "start"
    /\ pending' = FALSE
    /\ work' = <<>>
    /\ stack' = <<>>
    /\ cur' = NoChain
    /\ out' = NoChain
    /\ emitted' = {}
    /\ succWork' = 0
    /\ UNCHANGED <<pool, call, asg>>

BothNext == SearchNext \/ RunGreedyNext

SpecBoth == BothInit /\ [][BothNext]_vars

BothFinished == cfg.strategy = "greedy" /\ Finished /\ hist # <<>>

(***************************************************************************)
(* C18: run to exhaustion on the same arguments, the two strategies have   *)
(* emitted the same set of chains.  Violated: for a root rule whose own    *)
(* regression is impossible ai_search_dumb emits the root-only chain with  *)
(* start None, ai_search_greedy emits nothing.                             *)
(***************************************************************************)
C18_SameChains == BothFinished => emitted = hist[1].chains

(***************************************************************************)
(* The matcher specification: one tag_match or pattern_match call on an    *)
(* input pool, with a pattern tag of no, one or two binds.                 *)
(***************************************************************************)
PatternTags(n) ==
    {Tag(x, b) : x \in {"hold", "dwarf", "fall!"},
                 b \in {<<>>} \cup [1..1 -> 0..(n - 1)] \cup [1..2 -> 0..(n - 1)]}

MatchTagMatch ==
    /\ call.op = "none"
    /\ \E i \in 0..(Len(pool) - 1) : \E tag \in PatternTags(Len(pool)) :
           call' = [op |-> "tag_match", entity |-> i, tag |-> tag, arg |-> pool,
                    ret |-> tag_match(Nth(pool, i), tag, pool)]
    /\ UNCHANGED <<pool, asg, hist, searchVars>>

MatchPatternMatch ==
    /\ call.op = "none"
    /\ \E i \in 0..(Len(pool) - 1) : \E tag \in PatternTags(Len(pool)) : \E sign \in BOOLEAN :
           call' = [op |-> "pattern_match", entity |-> i, tag |-> tag, sign |-> sign,
                    arg |-> pool, ret |-> pattern_match(Pattern(sign, i, tag), pool)]
    /\ UNCHANGED <<pool, asg, hist, searchVars>>

MatchNext == MatchTagMatch \/ MatchPatternMatch

SpecMatch == EngInit /\ [][MatchNext]_vars

\* tag t has, at every bind position the pattern tag supplies, the id of the
\* pool entity the pattern's local index refers to
SuppliedBindsPresent(t, tag, entities) ==
    \A k \in 1..Len(tag.binds) :
        k <= Len(t.binds) /\ t.binds[k] = Nth(entities, tag.binds[k]).id

(***************************************************************************)
(* C19: tag_match is true iff the entity has a tag of the pattern's name   *)
(* that has, at every bind position the pattern supplies, the id of the    *)
(* pool entity the pattern's index refers to: a pattern with fewer binds   *)
(* than the tag is compared on its own positions only, a pattern with a    *)
(* bind position the tag lacks does not match.  Violated: zip stops at the *)
(* shorter tuple, so hold(1) matches a tag hold without binds.             *)
(***************************************************************************)
C19_TagMatch ==
    call.op = "tag_match" =>
        (call.ret <=> \E t \in Nth(call.arg, call.entity).tags :
                          t.tag = call.tag.tag /\ SuppliedBindsPresent(t, call.tag, call.arg))

\* a pool of the search: num_entities entities, the entity with id i at
\* position i, no entity with two tags of one name
WellFormedPool(es) ==
    /\ Len(es) = cfg.n
    /\ \A i \in 0..(Len(es) - 1) : Nth(es, i).id = i /\ OneTagPerName(Nth(es, i))

\* the positions of pool es that the application r does not select
NonParticipants(r, es) == {i \in 0..(Len(es) - 1) : \A k \in 1..Len(r.swizzle) : r.swizzle[k] # i}

(***************************************************************************)
(* C20: every start pool emitted by either strategy and every pool stored  *)
(* in the greedy frontier has exactly num_entities entities, holds the     *)
(* entity with id i at position i, and has no entity, participant of the   *)
(* last regression or not, with two tags of one name.  (The start None     *)
(* that ai_search_dumb emits after an impossible root regression is no     *)
(* pool; C1 is about that chain.)                                          *)
(***************************************************************************)
C20_PoolsWellFormed ==
    /\ \A c \in emitted : c.start.kind = "pool" => WellFormedPool(c.start.es)
    /\ \A i \in 1..Len(work) : WellFormedPool(work[i].entities)

\* the greedy search has emitted a start pool reached by two regressions in
\* which an entity outside the last regression carries a tag, on a pool
\* larger than the last rule, and the frontier still holds nodes
C20_Witness ==
    /\ cfg.strategy = "greedy"
    /\ work # <<>>
    /\ \E c \in emitted :
           /\ c.start.kind = "pool"
           /\ Len(c.rules) >= 2
           /\ \E i \in NonParticipants(c.rules[1], c.start.es) : Nth(c.start.es, i).tags # {}

====
